---------------------------- MODULE Spec2Model ----------------------------
(***************************************************************************)
(* Orchestration core of the yt-finance pipeline: the hash store           *)
(* (src/utils/hash.py), the retry wrappers (src/utils/retry.py), news      *)
(* ingestion (src/ingest/news_feed.py), the script and publish stages      *)
(* (src/author/script_writer.py, src/publish/youtube_upload.py) and the    *)
(* controller (run_pipeline.py).                                           *)
(*                                                                         *)
(* Text is a sequence of word tokens.  A log file is the sequence of its   *)
(* lines; a line is the sequence of the pieces save_content_hash writes:   *)
(* <<hash>> or <<hash, "|", json>>.  A missing file and an empty file read *)
(* the same everywhere in hash.py and are both the empty sequence.         *)
(* sha256 is modelled as injective: the digest of s is <<"sha256", s>>.    *)
(***************************************************************************)
EXTENDS Integers, Sequences, FiniteSets, TLC

VARIABLES
    files,       \* hash_file_path -> lines of the file (persists across runs)
    chk,         \* record of the last direct call of the hash library
    saved,       \* history: <<hash, file>> pairs recorded by save_content_hash
    apiCalls,    \* number of direct hash-store calls made so far
    feed,        \* what the RSS sources serve: sequence of [source, entry]
    run,         \* number of the current process run
    pc,          \* position in run_pipeline: "ingest", "process", "done"
    work_items,  \* run_pipeline's list of work item dicts
    cur,         \* index of the work item process_work_item is working on
    stage,       \* next step of process_work_item for that item
    statusLog,   \* history: per work item, the status values written so far
    calls,       \* history: collaborator invocations <<run, item id, collaborator>>
    done,        \* history: <<item id, run>> of every upload record saved
    hits,        \* history: <<run, item id, checkpoint>> of every fingerprint hit
    fetchFailed, \* history: the sources whose fetch failed in the current run
    rt,          \* state of the retry wrappers
    sched        \* the event loop: kind of the retried function, steps of the other task

vars == <<files, chk, saved, apiCalls, feed, run, pc, work_items, cur, stage,
          statusLog, calls, done, hits, fetchFailed, rt, sched>>


(***************************************************************************)
(* Bounds of the model.                                                    *)
(***************************************************************************)
MaxFeed     == 2   \* entries served by all sources together
MaxRuns     == 2   \* process runs (restarts + 1)
MaxApiCalls == 1   \* direct save_content_hash calls between runs
MaxStoreOps == 3   \* direct hash-store calls in the store specification
MaxAttempts == 3   \* largest max_attempts a retry policy is given
MaxCalls    == 2   \* calls made through one retry wrapper
MaxLogSaves == 2   \* save_content_hash calls in the log specification
MaxText     == 5   \* characters of a narration text
MaxOtherSteps == 2 \* steps of the other task on the event loop

(***************************************************************************)
(* Python values.                                                          *)
(***************************************************************************)
None == [none |-> TRUE]
IsNone(v) == DOMAIN v = {"none"}

\* dict.get(key, default)
Get(d, k, default) == IF k \in DOMAIN d THEN d[k] ELSE default

\* d[k] = v on a dict
Put(d, k, v) == [x \in (DOMAIN d) \cup {k} |-> IF x = k THEN v ELSE d[x]]

\* bool(metadata): None and the empty dict are falsy
Truthy(m) == ~IsNone(m) /\ DOMAIN m # {}

EmptyDict == [x \in {} |-> TRUE]

(***************************************************************************)
(* utils/hash.py                                                           *)
(***************************************************************************)
generate_content_hash(content) == <<"sha256", content>>

\* json.dumps(key_fields, sort_keys=True): the keys in sorted order, each
\* followed by its value
generate_script_hash(script) ==
    generate_content_hash(<<"content",  Get(script, "content", <<>>),
                            "cta",      Get(script, "cta", <<>>),
                            "hook",     Get(script, "hook", <<>>),
                            "keywords", Get(script, "keywords", <<>>)>>)

\* json.dumps(metadata) and json.loads of that text
JsonDumps(m) == <<"json", m>>
JsonLoads(s) == s[2]

\* the text save_content_hash writes for one record
HashEntry(content_hash, metadata) ==
    IF Truthy(metadata)
    THEN <<content_hash, "|", JsonDumps(metadata)>>
    ELSE <<content_hash>>

\* the set comprehension check_duplicate_content reads: whole stripped lines
ExistingHashes(lines) == {lines[i] : i \in 1..Len(lines)}

\* A variant: the reader takes the part of the line before the first "|".
check_duplicate_content_split(content_hash, lines) ==
    \E i \in 1..Len(lines) : lines[i][1] = content_hash

check_duplicate_content(content_hash, lines) ==
    <<content_hash>> \in ExistingHashes(lines)

\* A variant: the file is opened with mode 'w' and holds the new record only.
save_content_hash_overwrite(content_hash, lines, metadata) ==
    <<HashEntry(content_hash, metadata)>>

save_content_hash(content_hash, lines, metadata) ==
    Append(lines, HashEntry(content_hash, metadata))


(***************************************************************************)
(* utils/text.py                                                           *)
(***************************************************************************)
\* the members of stop_words that occur in the modelled vocabulary
stop_words == {"the", "a", "an", "and", "of", "is"}

\* sorted(items, key=..., reverse=True): Python's sort is stable, also when
\* reversed, so equal keys keep their original order
\* (keys[i] is the key of s[i])
StableSortDesc(s, keys) ==
    LET n == Len(s)
        Rank(i) == 1 + Cardinality({j \in 1..n :
                           \/ keys[j] > keys[i]
                           \/ keys[j] = keys[i] /\ j < i})
    IN  [p \in 1..n |-> s[CHOOSE i \in 1..n : Rank(i) = p]]

\* the keys of word_freq in insertion order
RECURSIVE FirstOccurrences(_)
FirstOccurrences(s) ==
    IF s = <<>> THEN <<>>
    ELSE <<Head(s)>> \o SelectSeq(FirstOccurrences(Tail(s)),
                                  LAMBDA w : w # Head(s))

extract_keywords(text, max_keywords) ==
    LET keywords == SelectSeq(text, LAMBDA w : Len(w) > 2 /\ w \notin stop_words)
        word_freq(w) == Cardinality({i \in 1..Len(keywords) : keywords[i] = w})
        words == FirstOccurrences(keywords)
        sorted_keywords == StableSortDesc(words,
                               [i \in 1..Len(words) |-> word_freq(words[i])])
    IN  SubSeq(sorted_keywords, 1,
               IF Len(sorted_keywords) < max_keywords
               THEN Len(sorted_keywords) ELSE max_keywords)

\* clean_text collapses whitespace; a token sequence has none to collapse
clean_text(text) == text

(***************************************************************************)
(* The RSS entries the sources may serve.  E1 and E2 differ in the title   *)
(* by a stop word; E1 and E4 share title and link and differ in summary.   *)
(***************************************************************************)
Sources == <<"A", "B">>

E1 == [title |-> <<"fed">>,        summary |-> <<"rates">>, link |-> "l1", published |-> 1]
E2 == [title |-> <<"the", "fed">>, summary |-> <<"rates">>, link |-> "l2", published |-> 2]
E4 == [title |-> <<"fed">>,        summary |-> <<"cuts">>,  link |-> "l1", published |-> 1]
Entries == {E1, E2, E4}

\* what the language model may answer for the script content
Contents == {<<"c1">>}

SourceIndex(s) == CHOOSE i \in 1..Len(Sources) : Sources[i] = s

\* the feeds: at most MaxFeed entries, listed source by source in the order
\* of config["news_sources"]
Feeds ==
    {f \in UNION {[1..n -> [source : {Sources[i] : i \in 1..Len(Sources)},
                            entry : Entries]] : n \in 1..MaxFeed} :
        \A i \in 1..Len(f) - 1 :
            SourceIndex(f[i].source) <= SourceIndex(f[i + 1].source)}

(***************************************************************************)
(* ingest/news_feed.py                                                     *)
(***************************************************************************)
max_keywords == 5

\* "./data/logs/content_hashes_<source>.txt", script_hashes.txt, youtube_uploads.txt
NewsHashFile(source_name) == <<"content_hashes", source_name>>
ScriptHashFile == <<"script_hashes">>
UploadHashFile == <<"youtube_uploads">>
HashFiles == {NewsHashFile(Sources[i]) : i \in 1..Len(Sources)}
                 \cup {ScriptHashFile, UploadHashFile}

\* datetime.isoformat(): a string; loop.time(): a float
IsoFormat(t) == <<"str", t>>
LoopTime(t) == <<"float", t>>

NewsContentHash(entry) ==
    generate_content_hash(clean_text(entry.title) \o <<"|">> \o clean_text(entry.summary))

\* _process_entry: the news item (or None) and the log files afterwards.
\* The id's hash part is the first 8 hex digits in the code; the model keeps
\* the digest whole.
_process_entry(entry, source_name, fs) ==
    LET title == clean_text(entry.title)
        summary == clean_text(entry.summary)
        content_hash == NewsContentHash(entry)
        hash_file == NewsHashFile(source_name)
        timestamp == IsoFormat(entry.published)
    IN  IF title = <<>> \/ summary = <<>>
        THEN [item |-> None, files |-> fs]
        ELSE IF check_duplicate_content(content_hash, fs[hash_file])
        THEN [item |-> None, files |-> fs]
        ELSE [item |-> [id |-> <<source_name, timestamp, content_hash>>,
                        title |-> title,
                        summary |-> summary,
                        keywords |-> extract_keywords(title \o summary, max_keywords),
                        source |-> source_name,
                        url |-> entry.link,
                        timestamp |-> timestamp,
                        content_hash |-> content_hash],
              files |-> [fs EXCEPT ![hash_file] =
                            save_content_hash(content_hash, @,
                                [timestamp |-> timestamp, title |-> title,
                                 source |-> source_name])]]

\* A variant: keeps every item, seen or not.
_deduplicate_news_keep_all(news_items) == news_items

\* A variant: of several items with one hash the last one is kept.
_deduplicate_news_keep_last(news_items) ==
    LET n == Len(news_items)
        last == {i \in 1..n : \A j \in (i + 1)..n :
                    news_items[j].content_hash # news_items[i].content_hash}
        kept[k \in 0..n] ==
            IF k = 0 THEN <<>>
            ELSE IF k \in last THEN Append(kept[k - 1], news_items[k])
            ELSE kept[k - 1]
    IN  kept[n]

RECURSIVE _deduplicate_news(_)
_deduplicate_news(news_items) ==
    IF news_items = <<>> THEN <<>>
    ELSE LET n == Len(news_items)
             rest == _deduplicate_news(SubSeq(news_items, 1, n - 1))
             seen_hashes == {rest[i].content_hash : i \in 1..Len(rest)}
         IN  IF news_items[n].content_hash \notin seen_hashes
             THEN Append(rest, news_items[n])
             ELSE rest

\* the loop of fetch_news over the sources, and of _fetch_from_source over
\* the entries of each; a source in `failed` raises on every attempt
RECURSIVE FetchAll(_, _, _, _)
FetchAll(fd, failed, fs, all_news) ==
    IF fd = <<>> THEN [files |-> fs, news |-> all_news]
    ELSE IF Head(fd).source \in failed
    THEN FetchAll(Tail(fd), failed, fs, all_news)
    ELSE LET res == _process_entry(Head(fd).entry, Head(fd).source, fs)
         IN  FetchAll(Tail(fd), failed, res.files,
                      IF IsNone(res.item) THEN all_news
                      ELSE Append(all_news, res.item))

fetch_news(fd, failed, fs) ==
    LET got == FetchAll(fd, failed, fs, <<>>)
        unique_news == _deduplicate_news(got.news)
    IN  [files |-> got.files,
         news |-> StableSortDesc(unique_news,
                     [i \in 1..Len(unique_news) |-> unique_news[i].timestamp[2]])]

\* ingest_news: one work item dict per news item
WorkItem(news_item) ==
    [id |-> news_item.id, title |-> news_item.title,
     summary |-> news_item.summary, keywords |-> news_item.keywords,
     source |-> news_item.source, timestamp |-> news_item.timestamp,
     status |-> "pending"]

ingest_news(news) == [i \in 1..Len(news) |-> WorkItem(news[i])]

(***************************************************************************)
(* run_pipeline.py: the controller and the per-item state machine.         *)
(* process_work_item is one action per await: each stage call together     *)
(* with the assignments that follow it, or with the except block when the  *)
(* call raises.                                                            *)
(***************************************************************************)
script_length == 60

CurItem == work_items[cur]

\* a collaborator invocation made for the current item
Called(collaborator) == calls \cup {<<run, CurItem.id, collaborator>>}

\* the next iteration of "for work_item in work_items", or the end of run_pipeline
NextItem ==
    IF cur < Len(work_items)
    THEN cur' = cur + 1 /\ stage' = "script" /\ pc' = pc
    ELSE cur' = cur /\ stage' = "end" /\ pc' = "done"

\* A variant: the footage step is left out of the try block.
Advance_skip(key, value, status, next_stage) ==
    /\ work_items' = [work_items EXCEPT ![cur] = Put(Put(@, key, value), "status", status)]
    /\ statusLog' = [statusLog EXCEPT ![cur] = Append(@, status)]
    /\ stage' = IF next_stage = "broll" THEN "video" ELSE next_stage
    /\ UNCHANGED <<cur, pc>>

\* work_item[key] = value; work_item["status"] = status
Advance(key, value, status, next_stage) ==
    /\ work_items' = [work_items EXCEPT ![cur] = Put(Put(@, key, value), "status", status)]
    /\ statusLog' = [statusLog EXCEPT ![cur] = Append(@, status)]
    /\ stage' = next_stage
    /\ UNCHANGED <<cur, pc>>

\* work_item[key] = value; work_item["status"] = status at the end of the
\* try block: process_work_item returns and the loop goes on
Finish(key, value, status) ==
    /\ work_items' = [work_items EXCEPT ![cur] = Put(Put(@, key, value), "status", status)]
    /\ statusLog' = [statusLog EXCEPT ![cur] = Append(@, status)]
    /\ NextItem

\* A variant: the except block re-raises after recording the failure, which
\* ends run_pipeline's loop.
Fail_reraise(description) ==
    /\ work_items' = [work_items EXCEPT ![cur] =
                         Put(Put(@, "status", "failed"), "error", description)]
    /\ statusLog' = [statusLog EXCEPT ![cur] = Append(@, "failed")]
    /\ cur' = cur /\ stage' = "end" /\ pc' = "done"

\* A variant: the except block sets the status and drops the description.
Fail_no_error(description) ==
    /\ work_items' = [work_items EXCEPT ![cur] = Put(@, "status", "failed")]
    /\ statusLog' = [statusLog EXCEPT ![cur] = Append(@, "failed")]
    /\ NextItem

\* A variant: the except block records the error and leaves the status.
Fail_keep_status(description) ==
    /\ work_items' = [work_items EXCEPT ![cur] = Put(@, "error", description)]
    /\ statusLog' = statusLog
    /\ NextItem

\* A variant: an item that failed for the first time is started again.
Fail_retry_item(description) ==
    /\ work_items' = [work_items EXCEPT ![cur] =
                         Put(Put(@, "status", "failed"), "error", description)]
    /\ statusLog' = [statusLog EXCEPT ![cur] = Append(@, "failed")]
    /\ IF \A k \in 1..Len(statusLog[cur]) : statusLog[cur][k] # "failed"
       THEN cur' = cur /\ stage' = "script" /\ pc' = pc
       ELSE NextItem

\* except Exception as e: status = "failed", error = str(e); the loop goes on
Fail(description) ==
    /\ work_items' = [work_items EXCEPT ![cur] =
                         Put(Put(@, "status", "failed"), "error", description)]
    /\ statusLog' = [statusLog EXCEPT ![cur] = Append(@, "failed")]
    /\ NextItem

\* A variant: an empty ingestion is raised as an error instead of returning.
Ingest_raise_on_empty ==
    /\ pc = "ingest"
    /\ \E failed \in SUBSET {Sources[i] : i \in 1..Len(Sources)} :
          LET got == fetch_news(feed, failed, files)
              items == ingest_news(got.news)
          IN  /\ files' = got.files
              /\ fetchFailed' = failed
              /\ work_items' = items
              /\ statusLog' = [i \in 1..Len(items) |-> <<"pending">>]
              /\ IF items = <<>>
                 THEN pc' = "raised" /\ cur' = 0 /\ stage' = "end"
                 ELSE pc' = "process" /\ cur' = 1 /\ stage' = "script"
    /\ UNCHANGED <<chk, saved, apiCalls, feed, run, calls, done, hits, rt, sched>>

\* run_pipeline, lines 57-61: ingest_news, then the early return or the loop
Ingest ==
    /\ pc = "ingest"
    /\ \E failed \in SUBSET {Sources[i] : i \in 1..Len(Sources)} :
          LET got == fetch_news(feed, failed, files)
              items == ingest_news(got.news)
          IN  /\ files' = got.files
              /\ fetchFailed' = failed
              /\ work_items' = items
              /\ statusLog' = [i \in 1..Len(items) |-> <<"pending">>]
              /\ IF items = <<>>
                 THEN pc' = "done" /\ cur' = 0 /\ stage' = "end"
                 ELSE pc' = "process" /\ cur' = 1 /\ stage' = "script"
    /\ UNCHANGED <<chk, saved, apiCalls, feed, run, calls, done, hits, rt, sched>>

\* the fingerprint generate_script computes for its work item
ScriptFingerprint(w) ==
    generate_script_hash([title |-> w.title, summary |-> w.summary,
                          keywords |-> w.keywords])

\* the script dict generate_script builds
Script(w, script_content) ==
    [work_item_id |-> w.id, title |-> w.title, hook |-> <<"hook">>,
     content |-> script_content, cta |-> <<"cta">>, keywords |-> w.keywords,
     duration |-> script_length, script_hash |-> ScriptFingerprint(w)]

\* Step 1: script_writer.generate_script (script_writer.py 49-106)
StageScript ==
    /\ pc = "process" /\ stage = "script"
    /\ IF check_duplicate_content(ScriptFingerprint(CurItem), files[ScriptHashFile])
       THEN \* "Skipping duplicate script": generate_script returns None
            /\ Advance("script", None, "script_generated", "audio")
            /\ hits' = hits \cup {<<run, CurItem.id, "script">>}
            /\ UNCHANGED <<files, calls>>
       ELSE \/ \* one of the three language-model calls exhausts its retries
               /\ calls' = Called("script")
               /\ Fail("script generation failed")
               /\ UNCHANGED <<files, hits>>
            \/ \E script_content \in Contents :
                  /\ calls' = Called("script")
                  /\ files' = [files EXCEPT ![ScriptHashFile] =
                        save_content_hash(ScriptFingerprint(CurItem), @,
                            [timestamp |-> IsoFormat(run), title |-> CurItem.title,
                             work_item_id |-> CurItem.id])]
                  /\ Advance("script", Script(CurItem, script_content),
                             "script_generated", "audio")
                  /\ UNCHANGED hits
    /\ UNCHANGED <<chk, saved, apiCalls, feed, run, done, fetchFailed, rt, sched>>

\* Step 2: tts.generate_audio(script["content"])
StageAudio ==
    /\ pc = "process" /\ stage = "audio"
    /\ IF IsNone(CurItem.script)
       THEN \* script["content"] on None raises TypeError before any call
            /\ Fail("'NoneType' object is not subscriptable")
            /\ UNCHANGED calls
       ELSE /\ calls' = Called("voice")
            /\ \/ Fail("audio generation failed")
               \/ Advance("audio_path", <<"audio", CurItem.id>>,
                          "audio_generated", "broll")
    /\ UNCHANGED <<files, chk, saved, apiCalls, feed, run, done, hits, fetchFailed, rt, sched>>

\* A variant: an empty footage list is raised as an error.
StageBroll_fail_on_empty ==
    /\ pc = "process" /\ stage = "broll"
    /\ calls' = Called("footage")
    /\ \E broll_paths \in {<<>>, <<"broll">>} :
          /\ CurItem.script.keywords = <<>> => broll_paths = <<>>
          /\ IF broll_paths = <<>>
             THEN Fail("no footage")
             ELSE Advance("broll_paths", broll_paths, "broll_downloaded", "video")
    /\ UNCHANGED <<files, chk, saved, apiCalls, feed, run, done, hits, fetchFailed, rt, sched>>

\* Step 3: broll_downloader.download_footage never raises: every search and
\* download failure is caught inside it
StageBroll ==
    /\ pc = "process" /\ stage = "broll"
    /\ calls' = Called("footage")
    /\ \E broll_paths \in {<<>>, <<"broll">>} :
          /\ CurItem.script.keywords = <<>> => broll_paths = <<>>
          /\ Advance("broll_paths", broll_paths, "broll_downloaded", "video")
    /\ UNCHANGED <<files, chk, saved, apiCalls, feed, run, done, hits, fetchFailed, rt, sched>>

\* Step 4: video_composer.compose_video
StageVideo ==
    /\ pc = "process" /\ stage = "video"
    /\ calls' = Called("render")
    /\ \/ Fail("video composition failed")
       \/ Advance("video_path", <<"video", CurItem.id>>, "video_composed", "thumbnail")
    /\ UNCHANGED <<files, chk, saved, apiCalls, feed, run, done, hits, fetchFailed, rt, sched>>

\* Step 5: thumbnail_generator.generate_thumbnail
StageThumbnail ==
    /\ pc = "process" /\ stage = "thumbnail"
    /\ calls' = Called("thumbnail")
    /\ \/ Fail("thumbnail generation failed")
       \/ Advance("thumbnail_path", <<"thumbnail", CurItem.id>>,
                  "thumbnail_generated", "upload")
    /\ UNCHANGED <<files, chk, saved, apiCalls, feed, run, done, hits, fetchFailed, rt, sched>>

\* the fingerprint upload_video computes for a script
UploadFingerprint(script) ==
    generate_content_hash(script.title \o <<"|">> \o script.content)

\* Step 6: youtube_uploader.upload_video (youtube_upload.py 98-145)
StageUpload ==
    /\ pc = "process" /\ stage = "upload"
    /\ LET script == CurItem.script
           content_hash == UploadFingerprint(script)
           video_id == <<"video_id", run, CurItem.id>>
       IN  IF check_duplicate_content(content_hash, files[UploadHashFile])
           THEN \* "Skipping duplicate upload": upload_video returns None
                /\ Finish("youtube_url", None, "uploaded")
                /\ hits' = hits \cup {<<run, CurItem.id, "publish">>}
                /\ UNCHANGED <<files, calls, done>>
           ELSE \/ \* _upload_video_file exhausts its retries
                   /\ calls' = Called("publish")
                   /\ Fail("video upload failed")
                   /\ UNCHANGED <<files, done, hits>>
                \/ \* the video is accepted, _upload_thumbnail exhausts its retries
                   /\ calls' = Called("publish")
                   /\ Fail("thumbnail upload failed")
                   /\ UNCHANGED <<files, done, hits>>
                \/ /\ calls' = Called("publish")
                   /\ files' = [files EXCEPT ![UploadHashFile] =
                         save_content_hash(content_hash, @,
                             [timestamp |-> LoopTime(run), title |-> script.title,
                              video_id |-> video_id, url |-> video_id])]
                   /\ done' = done \cup {<<CurItem.id, run>>}
                   /\ Finish("youtube_url", [url |-> video_id], "uploaded")
                   /\ UNCHANGED hits
    /\ UNCHANGED <<chk, saved, apiCalls, feed, run, fetchFailed, rt, sched>>

(***************************************************************************)
(* The process ends and a later run starts: memory is lost, the log files  *)
(* stay, the sources serve the same feed.                                  *)
(***************************************************************************)
Restart ==
    /\ pc = "done"
    /\ run < MaxRuns
    /\ run' = run + 1
    /\ pc' = "ingest"
    /\ work_items' = <<>>
    /\ statusLog' = <<>>
    /\ cur' = 0
    /\ stage' = "end"
    /\ fetchFailed' = {}
    /\ UNCHANGED <<files, chk, saved, apiCalls, feed, calls, done, hits, rt, sched>>

\* the fingerprints each log file is keyed on
Fingerprints(hash_file) ==
    IF hash_file = ScriptHashFile
    THEN {generate_script_hash([keywords |->
              extract_keywords(e.title \o e.summary, max_keywords)]) : e \in Entries}
    ELSE IF hash_file = UploadHashFile
    THEN {generate_content_hash(e.title \o <<"|">> \o c) : e \in Entries, c \in Contents}
    ELSE {NewsContentHash(e) : e \in Entries}

\* the metadata arguments of save_content_hash: absent, empty, non-empty
Metadatas == {None, EmptyDict, [timestamp |-> LoopTime(0)]}

\* A direct save_content_hash(hash, file) call without metadata, made while
\* no run is in progress (utils/hash.py is a library of its own).
ApiSaveBetweenRuns ==
    /\ pc = "ingest"
    /\ apiCalls < MaxApiCalls
    /\ \E hash_file \in {ScriptHashFile, UploadHashFile} :
       \E content_hash \in Fingerprints(hash_file) :
          /\ files' = [files EXCEPT ![hash_file] = save_content_hash(content_hash, @, None)]
          /\ saved' = saved \cup {<<content_hash, hash_file>>}
    /\ apiCalls' = apiCalls + 1
    /\ UNCHANGED <<chk, feed, run, pc, work_items, cur, stage, statusLog, calls, done,
                   hits, fetchFailed, rt, sched>>

(***************************************************************************)
(* Direct use of the hash store (utils/hash.py as a library).              *)
(***************************************************************************)
StoreFiles == {ScriptHashFile, UploadHashFile}
StoreHashes == {generate_content_hash(<<"a">>), generate_content_hash(<<"b">>)}

DirectSave ==
    /\ pc = "store"
    /\ apiCalls < MaxStoreOps
    /\ \E hash_file \in StoreFiles, content_hash \in StoreHashes, metadata \in Metadatas :
          /\ files' = [files EXCEPT ![hash_file] =
                          save_content_hash(content_hash, @, metadata)]
          /\ saved' = saved \cup {<<content_hash, hash_file>>}
    /\ apiCalls' = apiCalls + 1
    /\ UNCHANGED <<chk, feed, run, pc, work_items, cur, stage, statusLog, calls, done,
                   hits, fetchFailed, rt, sched>>

DirectCheck ==
    /\ pc = "store"
    /\ \E hash_file \in StoreFiles, content_hash \in StoreHashes :
          chk' = [hash |-> content_hash, file |-> hash_file,
                  result |-> check_duplicate_content(content_hash, files[hash_file])]
    /\ UNCHANGED <<files, saved, apiCalls, feed, run, pc, work_items, cur, stage,
                   statusLog, calls, done, hits, fetchFailed, rt, sched>>

(***************************************************************************)
(* utils/retry.py.  rt holds the policy the wrapper was built with, the    *)
(* RetryManager's current_delay field, and the frame of the call in        *)
(* progress.  Delays are whole seconds.                                    *)
(***************************************************************************)
ErrorKinds == {"TimeoutError", "FileNotFoundError"}
Entries_retry == {"retry_async", "retry_sync", "execute"}
Delays == {1, 2}
BackoffFactors == {1, 2}

RetryIdle == [mode |-> "off"]

\* no task is waiting on the event loop
SchedIdle == [func |-> "none", other |-> 0]

\* A variant: the last-attempt test is one attempt early.
IsLastAttempt_early(attempt, max_attempts) == attempt = max_attempts - 2

\* attempt == max_attempts - 1
IsLastAttempt(attempt, max_attempts) == attempt = max_attempts - 1

\* where the wrapper keeps current_delay: the decorator in a local of the
\* call, RetryManager in the field set once in __init__
UsesManager == rt.entry = "execute"

CurrentDelay == IF UsesManager THEN rt.mgr_delay ELSE rt.current_delay

\* a call through the wrapper begins: the locals are initialised
RetryCall ==
    /\ rt.mode = "on"
    /\ rt.pcr \in {"idle", "returned", "raised"}
    /\ rt.callNo < MaxCalls
    /\ rt' = [rt EXCEPT !.pcr = IF rt.max_attempts > 0 THEN "running" ELSE "raised",
                        !.callNo = @ + 1,
                        !.attempt = 0,
                        !.current_delay = rt.delay,
                        !.last_exception = "None",
                        !.outcomes = <<>>,
                        !.sleeps = <<>>,
                        !.result = IF rt.max_attempts > 0 THEN None
                                   ELSE [type |-> "RetryError", cause |-> "None"]]
    /\ UNCHANGED <<files, chk, saved, apiCalls, feed, run, pc, work_items, cur,
                   stage, statusLog, calls, done, hits, fetchFailed, sched>>

\* one pass through the try block: func is invoked and returns or raises
RetryAttempt ==
    /\ rt.mode = "on"
    /\ rt.pcr = "running"
    /\ \/ \* func returns
          rt' = [rt EXCEPT !.pcr = "returned",
                           !.outcomes = Append(@, "ok"),
                           !.result = [value |-> <<rt.callNo, Len(rt.outcomes) + 1>>]]
       \/ \E e \in ErrorKinds :
             IF e \notin rt.exceptions
             THEN \* not caught by "except exceptions": it leaves the wrapper as it is
                  rt' = [rt EXCEPT !.pcr = "raised",
                                   !.outcomes = Append(@, e),
                                   !.result = [type |-> e, cause |-> "None"]]
             ELSE IF IsLastAttempt(rt.attempt, rt.max_attempts)
             THEN rt' = [rt EXCEPT !.pcr = "raised",
                                   !.outcomes = Append(@, e),
                                   !.last_exception = e,
                                   !.result = [type |-> "RetryError", cause |-> e]]
             ELSE \* asyncio.sleep(current_delay) or time.sleep(current_delay)
                  rt' = [rt EXCEPT !.pcr = "sleeping",
                                   !.outcomes = Append(@, e),
                                   !.last_exception = e,
                                   !.sleeps = Append(@, CurrentDelay)]
    /\ UNCHANGED <<files, chk, saved, apiCalls, feed, run, pc, work_items, cur,
                   stage, statusLog, calls, done, hits, fetchFailed, sched>>

\* the sleep is over: current_delay *= backoff_factor and the loop goes on,
\* or ends and falls through to the final raise
RetryWake ==
    /\ rt.mode = "on"
    /\ rt.pcr = "sleeping"
    /\ LET more == rt.attempt + 1 < rt.max_attempts
       IN  rt' = [rt EXCEPT
              !.attempt = @ + 1,
              !.current_delay = IF UsesManager THEN @ ELSE @ * rt.backoff_factor,
              !.mgr_delay = IF UsesManager THEN @ * rt.backoff_factor ELSE @,
              !.pcr = IF more THEN "running" ELSE "raised",
              !.result = IF more THEN @
                         ELSE [type |-> "RetryError", cause |-> rt.last_exception]]
    /\ UNCHANGED <<files, chk, saved, apiCalls, feed, run, pc, work_items, cur,
                   stage, statusLog, calls, done, hits, fetchFailed, sched>>

\* retry(...)(func), RetryManager(...) or with_retry(func, ...) is built
RetryPolicies ==
    [mode : {"on"}, entry : Entries_retry, max_attempts : 1..MaxAttempts,
     delay : Delays, backoff_factor : BackoffFactors,
     exceptions : {ErrorKinds, {"TimeoutError"}}]

RetryStart(policy) ==
    [mode |-> "on", entry |-> policy.entry, max_attempts |-> policy.max_attempts,
     delay |-> policy.delay, backoff_factor |-> policy.backoff_factor,
     exceptions |-> policy.exceptions,
     mgr_delay |-> policy.delay, pcr |-> "idle", callNo |-> 0, attempt |-> 0,
     current_delay |-> policy.delay, last_exception |-> "None",
     outcomes |-> <<>>, sleeps |-> <<>>, result |-> None]

(***************************************************************************)
(* The specifications.                                                     *)
(***************************************************************************)
InitCommon ==
    /\ files = [f \in HashFiles |-> <<>>]
    /\ chk = None
    /\ saved = {}
    /\ apiCalls = 0
    /\ run = 1
    /\ work_items = <<>>
    /\ cur = 0
    /\ stage = "end"
    /\ statusLog = <<>>
    /\ calls = {}
    /\ done = {}
    /\ hits = {}
    /\ fetchFailed = {}

\* one process run, after at most MaxApiCalls direct records in the logs
Init ==
    /\ InitCommon
    /\ feed \in Feeds
    /\ pc = "ingest"
    /\ rt = RetryIdle
    /\ sched = SchedIdle

Next ==
    \/ ApiSaveBetweenRuns
    \/ Ingest
    \/ StageScript
    \/ StageAudio
    \/ StageBroll
    \/ StageVideo
    \/ StageThumbnail
    \/ StageUpload

Spec == Init /\ [][Next]_vars

\* the same with restarts of the process
NextRestart == Next \/ Restart

SpecRestart == Init /\ [][NextRestart]_vars

\* the hash store used directly
InitStore ==
    /\ InitCommon
    /\ feed = <<>>
    /\ pc = "store"
    /\ rt = RetryIdle
    /\ sched = SchedIdle

NextStore == DirectSave \/ DirectCheck

SpecStore == InitStore /\ [][NextStore]_vars

\* the retry wrappers
InitRetry ==
    /\ InitCommon
    /\ feed = <<>>
    /\ pc = "retry"
    /\ \E policy \in RetryPolicies : rt = RetryStart(policy)
    /\ sched = SchedIdle

NextRetry == RetryCall \/ RetryAttempt \/ RetryWake

SpecRetry == InitRetry /\ [][NextRetry]_vars

(***************************************************************************)
(* Properties.                                                             *)
(***************************************************************************)
CanonicalOrder == <<"pending", "script_generated", "audio_generated",
                    "broll_downloaded", "video_composed", "thumbnail_generated",
                    "uploaded">>
Rank(status) == CHOOSE r \in 1..Len(CanonicalOrder) : CanonicalOrder[r] = status
Canonical == {CanonicalOrder[r] : r \in 1..Len(CanonicalOrder)}
Terminal == {"uploaded", "failed", "skipped_duplicate"}

\* process_work_item has returned for item i
Processed(i) == i < cur \/ (pc = "done" /\ i <= cur)

\* the collaborators invoked for an item in the current run
CalledFor(id) == {c[3] : c \in {x \in calls : x[1] = run /\ x[2] = id}}

\* C1: once a run has recorded an item's raw, script and upload fingerprints,
\* no later run invokes the Script Generator or the Publisher for that item.
C1_NoReprocessingAfterRestart ==
    \A d \in done : \A c \in calls :
        (c[2] = d[1] /\ c[3] \in {"script", "publish"}) => c[1] <= d[2]

\* C2: every hash recorded by save_content_hash, with or without metadata,
\* is found by check_duplicate_content in that file; an unwritten file
\* reports no hash.
C2_SaveThenCheck ==
    /\ \A s \in saved : check_duplicate_content(s[1], files[s[2]])
    /\ \A f \in StoreFiles, h \in StoreHashes :
           files[f] = <<>> => ~check_duplicate_content(h, files[f])

\* C3: the status values written for an item start at pending, never go
\* back in the canonical order, hold no terminal status before the last
\* one, and end in a terminal status once process_work_item has returned.
C3_StatusMonotone ==
    \A i \in 1..Len(statusLog) :
        LET t == statusLog[i]
        IN  /\ t[1] = "pending"
            /\ work_items[i].status = t[Len(t)]
            /\ \A j \in 1..Len(t) - 1 :
                  /\ t[j] \in Canonical \ Terminal
                  /\ t[j + 1] \in Canonical \cup Terminal
                  /\ t[j + 1] \in Canonical => Rank(t[j]) <= Rank(t[j + 1])
            /\ Processed(i) => t[Len(t)] \in Terminal
            /\ ~Processed(i) => t[Len(t)] \notin Terminal

C3_Witness ==
    /\ pc = "done"
    /\ \E i \in 1..Len(statusLog) : statusLog[i] = CanonicalOrder
    /\ \E i \in 1..Len(statusLog) :
           statusLog[i] = <<"pending", "script_generated", "audio_generated",
                            "broll_downloaded", "failed">>

\* C4: when run_pipeline ends, process_work_item has run on every item of
\* the list and every item has a terminal status, whatever stages failed.
C4_FailureDoesNotAbortRun ==
    pc = "done" =>
        \A i \in 1..Len(work_items) :
            /\ Len(statusLog[i]) > 1
            /\ work_items[i].status \in Terminal

C4_Witness ==
    /\ pc = "done"
    /\ Len(work_items) = 2
    /\ work_items[1].status = "failed"
    /\ work_items[2].status = "uploaded"

\* the stage whose failure a description reports
FailedStage(description) ==
    CASE description = "script generation failed" -> "script"
      [] description = "'NoneType' object is not subscriptable" -> "voice"
      [] description = "audio generation failed" -> "voice"
      [] description = "video composition failed" -> "render"
      [] description = "thumbnail generation failed" -> "thumbnail"
      [] description = "video upload failed" -> "publish"
      [] description = "thumbnail upload failed" -> "publish"

StageOrder == <<"script", "voice", "footage", "render", "thumbnail", "publish">>
StageRank(st) == CHOOSE r \in 1..Len(StageOrder) : StageOrder[r] = st

\* C5: an item is failed exactly when a stage of it failed; it then holds
\* the failure description, and no collaborator of a later stage has been
\* invoked for it.
C5_FailureStopsItem ==
    \A i \in 1..Len(work_items) :
        LET w == work_items[i]
        IN  /\ w.status = "failed" <=> "error" \in DOMAIN w
            /\ w.status = "failed" =>
                  /\ Processed(i)
                  /\ \A c \in CalledFor(w.id) :
                        StageRank(c) <= StageRank(FailedStage(w.error))
            /\ (i = cur /\ pc = "process") => w.status # "failed"

C5_Witness ==
    \E i \in 1..Len(work_items) :
        /\ work_items[i].status = "failed"
        /\ work_items[i].error = "video composition failed"
        /\ CalledFor(work_items[i].id) = {"script", "voice", "footage", "render"}
        /\ i < cur

\* C6: an item whose script-stage fingerprint check found a record is
\* SkippedDuplicate at once: the status passes neither script_generated nor
\* failed, and no collaborator is invoked for it.
C6_ScriptDuplicateSkipped ==
    \A i \in 1..Len(work_items) :
        <<run, work_items[i].id, "script">> \in hits =>
            /\ statusLog[i] = <<"pending", "skipped_duplicate">>
            /\ CalledFor(work_items[i].id) = {}

\* C7: an item whose publish-stage fingerprint check found a record ends in
\* SkippedDuplicate, not uploaded, and the Publisher is not invoked for it.
C7_PublishDuplicateSkipped ==
    \A i \in 1..Len(work_items) :
        <<run, work_items[i].id, "publish">> \in hits =>
            /\ "publish" \notin CalledFor(work_items[i].id)
            /\ work_items[i].status = "skipped_duplicate"

\* the id _process_entry gives the news item of a feed record
IdOf(r) == <<r.source, IsoFormat(r.entry.published), NewsContentHash(r.entry)>>

\* the records of the publish log keyed on a title
PublishRecords(title) ==
    {n \in 1..Len(files[UploadHashFile]) :
        \E c \in Contents :
            files[UploadHashFile][n][1] = generate_content_hash(title \o <<"|">> \o c)}

\* C8 as stated: of two raw items with the same title and link fetched in a
\* run whose first is uploaded, the second ends SkippedDuplicate after a
\* script-stage hit and the publish log holds one record for that title.
C8_SecondSkippedAtScriptStage ==
    (pc = "done" /\ fetchFailed = {}) =>
        \A i, j \in 1..Len(feed) :
            (/\ i < j
             /\ feed[i].entry.title = feed[j].entry.title
             /\ feed[i].entry.link = feed[j].entry.link
             /\ \E k \in 1..Len(work_items) :
                   /\ work_items[k].id = IdOf(feed[i])
                   /\ work_items[k].status = "uploaded")
            => /\ \E k \in 1..Len(work_items) :
                     /\ work_items[k].id = IdOf(feed[j])
                     /\ work_items[k].status = "skipped_duplicate"
                     /\ <<run, work_items[k].id, "script">> \in hits
               /\ Cardinality(PublishRecords(feed[i].entry.title)) = 1

\* the feed records fetched in this run that carry the content of record i
SameContent(i) ==
    {j \in 1..Len(feed) :
        /\ feed[j].source \notin fetchFailed
        /\ feed[j].entry.title = feed[i].entry.title
        /\ feed[j].entry.summary = feed[i].entry.summary}

\* the work items of this run made from the content of feed record i
ItemsOf(i) ==
    {k \in 1..Len(work_items) :
        /\ work_items[k].title = clean_text(feed[i].entry.title)
        /\ work_items[k].summary = clean_text(feed[i].entry.summary)}

\* the publish-log records this run wrote for the content of feed record i
RunRecordsOf(i) ==
    {n \in 1..Len(files[UploadHashFile]) :
        LET line == files[UploadHashFile][n]
        IN  /\ Len(line) = 3
            /\ JsonLoads(line[3]).video_id[2] = run
            /\ JsonLoads(line[3]).video_id[3][3] = NewsContentHash(feed[i].entry)}

\* C8 as amended: raw items with the same title and summary fetched in one
\* run give one work item, made from the first of them; the others reach no
\* stage, no item is SkippedDuplicate, and the run writes at most one
\* publish record for the content, exactly one when the item ends uploaded
\* with a URL.
C8_RawDuplicateDropped ==
    pc \in {"process", "done"} =>
        /\ \A k \in 1..Len(work_items) : work_items[k].status # "skipped_duplicate"
        /\ \A i \in 1..Len(feed) :
              feed[i].source \notin fetchFailed =>
                 LET first == CHOOSE m \in SameContent(i) :
                                  \A j \in SameContent(i) : m <= j
                 IN  /\ Cardinality(ItemsOf(i)) = 1
                     /\ \A k \in ItemsOf(i) :
                           /\ work_items[k].id = IdOf(feed[first])
                           /\ Cardinality(RunRecordsOf(i)) <= 1
                           /\ (/\ work_items[k].status = "uploaded"
                               /\ ~IsNone(work_items[k].youtube_url))
                              => Cardinality(RunRecordsOf(i)) = 1
                     /\ \A c \in calls \cup hits :
                           (c[1] = run /\ c[2][3] = NewsContentHash(feed[i].entry))
                           => c[2] = IdOf(feed[first])

C8_Witness ==
    /\ pc = "done"
    /\ fetchFailed = {}
    /\ Len(feed) = 2
    /\ feed[1].entry = feed[2].entry
    /\ feed[1].source # feed[2].source
    /\ Len(work_items) = 1
    /\ work_items[1].status = "uploaded"
    /\ Cardinality(RunRecordsOf(1)) = 1

RECURSIVE Pow(_, _)
Pow(b, n) == IF n = 0 THEN 1 ELSE b * Pow(b, n - 1)

\* the invocations of func in the call in progress that raised
Raised == {i \in 1..Len(rt.outcomes) : rt.outcomes[i] # "ok"}

\* C9: when func raises only retryable errors, the wrapper invokes it until
\* the first success and at most max_attempts times: it returns the value of
\* the k-th invocation after exactly k invocations, and raises RetryError
\* caused by the last error after exactly max_attempts invocations.
C9_RetryBound ==
    (\A i \in Raised : rt.outcomes[i] \in rt.exceptions) =>
        LET o == rt.outcomes
            n == rt.max_attempts
        IN  /\ Len(o) <= n
            /\ \A i \in 1..Len(o) - 1 : o[i] # "ok"
            /\ rt.pcr = "returned" =>
                  /\ o[Len(o)] = "ok"
                  /\ rt.result = [value |-> <<rt.callNo, Len(o)>>]
            /\ rt.pcr = "raised" =>
                  /\ Len(o) = n
                  /\ o[n] # "ok"
                  /\ rt.result = [type |-> "RetryError", cause |-> o[n]]
            /\ rt.pcr \in {"running", "sleeping"} =>
                  /\ Len(o) < n
                  /\ Raised = 1..Len(o)

C9_Witness ==
    /\ rt.entry = "execute"
    /\ rt.callNo = 2
    /\ rt.max_attempts = 3
    /\ rt.pcr = "raised"
    /\ Len(rt.outcomes) = 3
    /\ rt.result = [type |-> "RetryError", cause |-> "TimeoutError"]

\* C10: in every call, the j-th sleep (the one before attempt j + 1) lasts
\* initial_delay * backoff_factor^(j - 1).
C10_BackoffDelays ==
    \A j \in 1..Len(rt.sleeps) :
        rt.sleeps[j] = rt.delay * Pow(rt.backoff_factor, j - 1)

\* C11: when func raises an error outside the retryable set, the wrapper
\* makes no further attempt and raises RetryError carrying the underlying
\* error.
C11_NonRetryableWrapped ==
    \A i \in Raised :
        rt.outcomes[i] \notin rt.exceptions =>
            /\ Len(rt.outcomes) = i
            /\ rt.pcr = "raised"
            /\ rt.result = [type |-> "RetryError", cause |-> rt.outcomes[i]]

\* @retry(max_attempts=3, delay=2.0) on VideoComposer._load_audio: the
\* defaults give backoff_factor 2.0 and exceptions (Exception,), which
\* catches every error kind
_load_audio_policy ==
    [mode |-> "on", entry |-> "retry_async", max_attempts |-> 3, delay |-> 2,
     backoff_factor |-> 2, exceptions |-> ErrorKinds]

\* the policy the wrapper in rt was built with
PolicyOf(r) ==
    [mode |-> r.mode, entry |-> r.entry, max_attempts |-> r.max_attempts,
     delay |-> r.delay, backoff_factor |-> r.backoff_factor,
     exceptions |-> r.exceptions]

\* C12: a stage operation that raises a permanent error (the audio file is
\* missing in _load_audio) is attempted once and fails without a sleep.
C12_PermanentErrorNotRetried ==
    (/\ PolicyOf(rt) = _load_audio_policy
     /\ Len(rt.outcomes) >= 1
     /\ rt.outcomes[1] = "FileNotFoundError")
    => /\ Len(rt.outcomes) = 1
       /\ rt.sleeps = <<>>
       /\ rt.pcr = "raised"

\* C13: the script-stage fingerprints of two work items are equal exactly
\* when the items agree on title, summary and keywords.
C13_ScriptFingerprintFields ==
    \A i, j \in 1..Len(work_items) :
        (ScriptFingerprint(work_items[i]) = ScriptFingerprint(work_items[j]))
        <=> (/\ work_items[i].title = work_items[j].title
             /\ work_items[i].summary = work_items[j].summary
             /\ work_items[i].keywords = work_items[j].keywords)

\* the hash part of a log line
HashOf(line) == line[1]

\* C14: in every log file, no hash appears in more than one record.
C14_HashesUniquePerFile ==
    \A f \in HashFiles :
        \A i, j \in 1..Len(files[f]) :
            HashOf(files[f][i]) = HashOf(files[f][j]) => i = j

(***************************************************************************)
(* utils/hash.py with its clock: load_content_hashes, cleanup_old_hashes.  *)
(* Every save takes one tick.  time.time() is BootTime + ticks; the event  *)
(* loop's time() is the monotonic clock, which started at boot.            *)
(***************************************************************************)
BootTime == 10

WallClock == BootTime + apiCalls
MonotonicClock == apiCalls

\* the hash and the metadata load_content_hashes reads from a line written
\* by save_content_hash
MetadataOf(line) == IF Len(line) = 3 THEN JsonLoads(line[3]) ELSE EmptyDict

\* load_content_hashes: the dict as the sequence of its items; a key keeps
\* the position of its first line and the value of its last line
load_content_hashes(lines) ==
    LET firsts == {i \in 1..Len(lines) :
                      \A j \in 1..(i - 1) : HashOf(lines[j]) # HashOf(lines[i])}
        last(i) == CHOOSE m \in 1..Len(lines) :
                      /\ HashOf(lines[m]) = HashOf(lines[i])
                      /\ \A j \in (m + 1)..Len(lines) : HashOf(lines[j]) # HashOf(lines[i])
        pos(k) == CHOOSE i \in firsts : Cardinality({j \in firsts : j < i}) = k - 1
    IN  [k \in 1..Cardinality(firsts) |->
            [hash |-> HashOf(lines[pos(k)]), metadata |-> MetadataOf(lines[last(pos(k))])]]

\* metadata.get('timestamp', 0)
TimestampOf(metadata) == Get(metadata, "timestamp", <<"int", 0>>)

RECURSIVE SaveAll(_, _)
SaveAll(items, lines) ==
    IF items = <<>> THEN lines
    ELSE SaveAll(Tail(items),
                 save_content_hash(Head(items).hash, lines, Head(items).metadata))

\* cleanup_old_hashes: whether it raised, and the lines of the file after it.
\* "timestamp > cutoff_time" raises TypeError when the timestamp is a str,
\* before the file is touched.
cleanup_old_hashes(lines, cutoff_time) ==
    LET hashes == load_content_hashes(lines)
        recent_hashes == SelectSeq(hashes,
                            LAMBDA e : TimestampOf(e.metadata)[2] > cutoff_time)
    IN  IF \E k \in 1..Len(hashes) : TimestampOf(hashes[k].metadata)[1] = "str"
        THEN [raised |-> TRUE, lines |-> lines]
        ELSE IF Len(recent_hashes) # Len(hashes)
        THEN [raised |-> FALSE, lines |-> SaveAll(recent_hashes, <<>>)]
        ELSE [raised |-> FALSE, lines |-> lines]

\* what callers pass as metadata: nothing, the record of _process_entry
\* (stamped with isoformat(), as is the record of generate_script), the
\* record of upload_video (stamped with loop.time()), and a record stamped
\* with time.time()
LogMetadatas ==
    {None,
     [timestamp |-> IsoFormat(WallClock), title |-> <<"fed">>, source |-> "A"],
     [timestamp |-> LoopTime(MonotonicClock), title |-> <<"fed">>,
      video_id |-> <<"video_id">>, url |-> <<"video_id">>],
     [timestamp |-> <<"float", WallClock>>]}

\* max_age_days, in ticks
MaxAges == {1, 2}

LogSave ==
    /\ pc = "log"
    /\ apiCalls < MaxLogSaves
    /\ \E hash_file \in StoreFiles, content_hash \in StoreHashes, metadata \in LogMetadatas :
          /\ files' = [files EXCEPT ![hash_file] =
                          save_content_hash(content_hash, @, metadata)]
          /\ saved' = saved \cup {<<content_hash, hash_file>>}
          /\ chk' = [op |-> "save", file |-> hash_file, hash |-> content_hash,
                     before |-> files]
    /\ apiCalls' = apiCalls + 1
    /\ UNCHANGED <<feed, run, pc, work_items, cur, stage, statusLog, calls, done,
                   hits, fetchFailed, rt, sched>>

LogCheck ==
    /\ pc = "log"
    /\ \E hash_file \in StoreFiles, content_hash \in StoreHashes :
          chk' = [op |-> "check", file |-> hash_file, hash |-> content_hash,
                  before |-> files,
                  result |-> check_duplicate_content(content_hash, files[hash_file])]
    /\ UNCHANGED <<files, saved, apiCalls, feed, run, pc, work_items, cur, stage,
                   statusLog, calls, done, hits, fetchFailed, rt, sched>>

LogLoad ==
    /\ pc = "log"
    /\ \E hash_file \in StoreFiles :
          chk' = [op |-> "load", file |-> hash_file, before |-> files,
                  result |-> load_content_hashes(files[hash_file])]
    /\ UNCHANGED <<files, saved, apiCalls, feed, run, pc, work_items, cur, stage,
                   statusLog, calls, done, hits, fetchFailed, rt, sched>>

LogCleanup ==
    /\ pc = "log"
    /\ \E hash_file \in StoreFiles, max_age \in MaxAges :
          LET res == cleanup_old_hashes(files[hash_file], WallClock - max_age)
          IN  /\ files' = [files EXCEPT ![hash_file] = res.lines]
              /\ chk' = [op |-> "cleanup", file |-> hash_file, before |-> files,
                         now |-> WallClock, max_age |-> max_age,
                         raised |-> res.raised]
    /\ UNCHANGED <<saved, apiCalls, feed, run, pc, work_items, cur, stage,
                   statusLog, calls, done, hits, fetchFailed, rt, sched>>

InitLog ==
    /\ InitCommon
    /\ feed = <<>>
    /\ pc = "log"
    /\ rt = RetryIdle
    /\ sched = SchedIdle

NextLog == LogSave \/ LogCheck \/ LogLoad \/ LogCleanup

SpecLog == InitLog /\ [][NextLog]_vars

\* the last library call was op
LastOp(op) == ~IsNone(chk) /\ chk.op = op

\* C15: save_content_hash adds one record carrying its hash at the end of
\* its file and leaves every earlier record and every other file as they
\* were; check_duplicate_content and load_content_hashes change no file.
C15_SaveAppendsOnly ==
    /\ LastOp("save") =>
          /\ Len(files[chk.file]) = Len(chk.before[chk.file]) + 1
          /\ SubSeq(files[chk.file], 1, Len(chk.before[chk.file])) = chk.before[chk.file]
          /\ HashOf(files[chk.file][Len(files[chk.file])]) = chk.hash
          /\ \A g \in HashFiles \ {chk.file} : files[g] = chk.before[g]
    /\ (LastOp("check") \/ LastOp("load")) => files = chk.before

C15_Witness ==
    /\ LastOp("save")
    /\ Len(chk.before[chk.file]) >= 1
    /\ Len(files[chk.file]) = 2

\* the lines of a file as a set
LinesOf(lines) == {lines[i] : i \in 1..Len(lines)}

\* C16: cleanup_old_hashes removes no record whose metadata has no
\* timestamp: every such record of the file is still in it afterwards.
C16_CleanupKeepsUnstamped ==
    LastOp("cleanup") =>
        \A line \in LinesOf(chk.before[chk.file]) :
            "timestamp" \notin DOMAIN MetadataOf(line)
            => line \in LinesOf(files[chk.file])

\* the records the pipeline writes: stamped with isoformat() in the news and
\* script logs, with the event loop's time() in the upload log
PipelineRecord(line) == {"timestamp", "title"} \subseteq DOMAIN MetadataOf(line)

\* the wall-clock time at which a pipeline record was written
WrittenAt(line) ==
    IF "video_id" \in DOMAIN MetadataOf(line)
    THEN BootTime + MetadataOf(line).timestamp[2]
    ELSE MetadataOf(line).timestamp[2]

\* C17: on a file of pipeline records with distinct hashes,
\* cleanup_old_hashes completes and leaves the records younger than max_age,
\* unchanged, and none of the records older than max_age.
C17_CleanupByAge ==
    (/\ LastOp("cleanup")
     /\ \A line \in LinesOf(chk.before[chk.file]) : PipelineRecord(line)
     /\ \A i, j \in 1..Len(chk.before[chk.file]) :
           HashOf(chk.before[chk.file][i]) = HashOf(chk.before[chk.file][j]) => i = j)
    => /\ ~chk.raised
       /\ LinesOf(files[chk.file]) \subseteq LinesOf(chk.before[chk.file])
       /\ \A line \in LinesOf(chk.before[chk.file]) :
             /\ chk.now - WrittenAt(line) < chk.max_age
                   => line \in LinesOf(files[chk.file])
             /\ chk.now - WrittenAt(line) > chk.max_age
                   => line \notin LinesOf(files[chk.file])

\* the key of the work item under which process_work_item stores what a
\* collaborator returned
OutputField(collaborator) ==
    CASE collaborator = "script" -> "script"
      [] collaborator = "voice" -> "audio_path"
      [] collaborator = "footage" -> "broll_paths"
      [] collaborator = "render" -> "video_path"
      [] collaborator = "thumbnail" -> "thumbnail_path"
      [] collaborator = "publish" -> "youtube_url"

\* the stage outputs a collaborator's arguments are taken from: script
\* content for the voice, script keywords and duration for the footage, the
\* audio path, the footage paths and the script's timings for the render,
\* the script keywords (with the item's title) for the thumbnail, the video
\* path, the thumbnail path and the script for the publisher
ArgFields(collaborator) ==
    CASE collaborator = "script" -> {}
      [] collaborator = "voice" -> {"script"}
      [] collaborator = "footage" -> {"script"}
      [] collaborator = "render" -> {"audio_path", "broll_paths", "script"}
      [] collaborator = "thumbnail" -> {"script"}
      [] collaborator = "publish" -> {"video_path", "thumbnail_path", "script"}

\* the collaborators a step invokes
NewCalls == calls' \ calls

\* a collaborator is invoked for the current item, for the first time, when
\* every earlier stage has been invoked and has returned, in order
InvokedInOrder(c) ==
    /\ c[1] = run
    /\ c[2] = CurItem.id
    /\ c[3] \notin CalledFor(CurItem.id)
    /\ statusLog[cur] = SubSeq(CanonicalOrder, 1, StageRank(c[3]))
    /\ \A r \in 1..(StageRank(c[3]) - 1) :
          /\ StageOrder[r] \in CalledFor(CurItem.id)
          /\ OutputField(StageOrder[r]) \in DOMAIN CurItem

\* C18 as stated: stages are invoked in order, each after the previous one
\* returned and with the previous stage's output among its arguments.
C18_StageReceivesPreviousOutput ==
    [][\A c \in NewCalls :
          /\ InvokedInOrder(c)
          /\ StageRank(c[3]) > 1 =>
                OutputField(StageOrder[StageRank(c[3]) - 1]) \in ArgFields(c[3])]_vars

\* C18 as amended: stages are invoked in order, each once and after the
\* previous one returned, none skipped; the arguments of a stage are outputs
\* of earlier stages of the same item, stored and not None, which need not
\* include the output of the stage just before it.
C18_StagesInOrder ==
    [][\A c \in NewCalls :
          /\ InvokedInOrder(c)
          /\ \A k \in ArgFields(c[3]) :
                /\ k \in DOMAIN CurItem
                /\ \E r \in 1..(StageRank(c[3]) - 1) : OutputField(StageOrder[r]) = k
          /\ "script" \in ArgFields(c[3]) => ~IsNone(CurItem.script)]_vars

C18_Witness ==
    \E i \in 1..Len(work_items) :
        /\ work_items[i].status = "uploaded"
        /\ ~IsNone(work_items[i].youtube_url)
        /\ CalledFor(work_items[i].id) =
              {"script", "voice", "footage", "render", "thumbnail", "publish"}

(***************************************************************************)
(* author/script_writer.py: _generate_subtitle_timings, with               *)
(* utils/text.py: extract_sentences.  A text is a sequence of characters;  *)
(* times are in milliseconds, so (word_count / 200) * 60 seconds is        *)
(* word_count * 60000 / 200, a whole number.                               *)
(***************************************************************************)
Chars == {"a", " ", ".", "?"}
Terminators == {".", "!", "?"}

Texts == UNION {[1..n -> Chars] : n \in 0..MaxText}

words_per_minute == 200
MillisPerMinute == 60000
MillisPerSecond == 1000

RECURSIVE SkipTerminators(_)
SkipTerminators(text) ==
    IF text # <<>> /\ Head(text) \in Terminators
    THEN SkipTerminators(Tail(text)) ELSE text

\* re.split(r'[.!?]+', text): the pieces between runs of terminators
RECURSIVE ReSplit(_, _)
ReSplit(text, piece) ==
    IF text = <<>> THEN <<piece>>
    ELSE IF Head(text) \in Terminators
    THEN <<piece>> \o ReSplit(SkipTerminators(Tail(text)), <<>>)
    ELSE ReSplit(Tail(text), Append(piece, Head(text)))

\* str.strip()
RECURSIVE Strip(_)
Strip(t) ==
    IF t = <<>> THEN t
    ELSE IF Head(t) = " " THEN Strip(Tail(t))
    ELSE IF t[Len(t)] = " " THEN Strip(SubSeq(t, 1, Len(t) - 1))
    ELSE t

\* [s.strip() for s in sentences if s.strip()]
extract_sentences(text) ==
    LET sentences == ReSplit(text, <<>>)
        stripped == [i \in 1..Len(sentences) |-> Strip(sentences[i])]
    IN  SelectSeq(stripped, LAMBDA t : t # <<>>)

\* A variant: every character is counted as a word.
WordCount_chars(sentence) == Len(sentence)

\* len(sentence.split())
WordCount(sentence) ==
    Cardinality({i \in 1..Len(sentence) :
                    /\ sentence[i] # " "
                    /\ (i = 1 \/ sentence[i - 1] = " ")})

\* A variant: current_time is not advanced.
NextTime_stuck(current_time, duration) == current_time

\* current_time += duration
NextTime(current_time, duration) == current_time + duration

\* the loop over the sentences
RECURSIVE Cues(_, _)
Cues(sentences, current_time) ==
    IF sentences = <<>> THEN <<>>
    ELSE LET word_count == WordCount(Head(sentences))
             duration == (word_count * MillisPerMinute) \div words_per_minute
         IN  <<[text |-> Head(sentences),
                start_time |-> current_time,
                end_time |-> current_time + duration,
                duration |-> duration]>>
             \o Cues(Tail(sentences), NextTime(current_time, duration))

_generate_subtitle_timings(script_content) ==
    Cues(extract_sentences(script_content), 0)

\* generate_script, lines 74-92: the timings and the duration of the script
\* built for a narration text
SubtitleTimings ==
    /\ pc = "subtitle"
    /\ chk.op = "text"
    /\ chk' = [op |-> "script", content |-> chk.content,
               subtitle_timings |-> _generate_subtitle_timings(chk.content),
               duration |-> script_length]
    /\ UNCHANGED <<files, saved, apiCalls, feed, run, pc, work_items, cur, stage,
                   statusLog, calls, done, hits, fetchFailed, rt, sched>>

\* "Markets rallied today. Investors are optimistic about growth."
ExampleNarration ==
    <<"M", "a", "r", "k", "e", "t", "s", " ", "r", "a", "l", "l", "i",
      "e", "d", " ", "t", "o", "d", "a", "y", ".", " ", "I", "n", "v",
      "e", "s", "t", "o", "r", "s", " ", "a", "r", "e", " ", "o", "p",
      "t", "i", "m", "i", "s", "t", "i", "c", " ", "a", "b", "o", "u",
      "t", " ", "g", "r", "o", "w", "t", "h", ".">>

\* the narration texts: every short text and the example
Narrations == Texts \cup {ExampleNarration}

InitSubtitle ==
    /\ files = [f \in HashFiles |-> <<>>]
    /\ \E script_content \in Narrations : chk = [op |-> "text", content |-> script_content]
    /\ saved = {} /\ apiCalls = 0 /\ run = 1 /\ work_items = <<>> /\ cur = 0
    /\ stage = "end" /\ statusLog = <<>> /\ calls = {} /\ done = {} /\ hits = {}
    /\ fetchFailed = {}
    /\ feed = <<>>
    /\ pc = "subtitle"
    /\ rt = RetryIdle
    /\ sched = SchedIdle

NextSubtitle == SubtitleTimings

SpecSubtitle == InitSubtitle /\ [][NextSubtitle]_vars

\* C19: the cues start at 0, each later cue starts at the end of the one
\* before it, and every cue has a text and ends after it starts.
C19_CuesContiguous ==
    chk.op = "script" =>
        LET cues == chk.subtitle_timings
        IN  /\ cues # <<>> => cues[1].start_time = 0
            /\ \A k \in 2..Len(cues) : cues[k].start_time = cues[k - 1].end_time
            /\ \A k \in 1..Len(cues) :
                  /\ cues[k].text # <<>>
                  /\ cues[k].start_time < cues[k].end_time
            /\ \A k, m \in 1..Len(cues) :
                  k < m => cues[k].end_time <= cues[m].start_time

C19_Witness ==
    /\ chk.op = "script"
    /\ Len(chk.subtitle_timings) = 2
    /\ chk.subtitle_timings[1].duration # chk.subtitle_timings[2].duration
    /\ chk.subtitle_timings[2].start_time > 0

\* C20: the last cue of a narration that has a sentence ends at the script's
\* duration; a narration without a sentence has no cue.
C20_LastCueEndsAtDuration ==
    chk.op = "script" =>
        LET cues == chk.subtitle_timings
        IN  IF extract_sentences(chk.content) = <<>>
            THEN cues = <<>>
            ELSE /\ cues # <<>>
                 /\ cues[Len(cues)].end_time = chk.duration * MillisPerSecond

\* the sum of a sequence of numbers
RECURSIVE Sum(_)
Sum(seq) == IF seq = <<>> THEN 0 ELSE Head(seq) + Sum(Tail(seq))

\* C21 as stated: every cue spans word_count / 200 * 60 seconds, the spans
\* add up to the sum of the durations, and the cues of the example are
\* [0, 0.9) and [0.9, 2.7).
C21_ExampleSpans ==
    chk.op = "script" =>
        LET cues == chk.subtitle_timings
        IN  /\ \A k \in 1..Len(cues) :
                  (cues[k].end_time - cues[k].start_time) * words_per_minute
                     = WordCount(cues[k].text) * MillisPerMinute
            /\ Sum([k \in 1..Len(cues) |-> cues[k].end_time - cues[k].start_time])
                  = Sum([k \in 1..Len(cues) |-> cues[k].duration])
            /\ chk.content = ExampleNarration =>
                  /\ Len(cues) = 2
                  /\ cues[1].start_time = 0 /\ cues[1].end_time = 900
                  /\ cues[2].start_time = 900 /\ cues[2].end_time = 2700

\* C21 as amended: every cue spans word_count / 200 * 60 seconds, the spans
\* add up to the sum of the durations, and the cues of the example (three
\* words, then five) are [0, 0.9) and [0.9, 2.4).
C21_CueSpans ==
    chk.op = "script" =>
        LET cues == chk.subtitle_timings
        IN  /\ \A k \in 1..Len(cues) :
                  (cues[k].end_time - cues[k].start_time) * words_per_minute
                     = WordCount(cues[k].text) * MillisPerMinute
            /\ Sum([k \in 1..Len(cues) |-> cues[k].end_time - cues[k].start_time])
                  = Sum([k \in 1..Len(cues) |-> cues[k].duration])
            /\ cues # <<>> =>
                  cues[Len(cues)].end_time
                     = Sum([k \in 1..Len(cues) |-> cues[k].duration])
            /\ chk.content = ExampleNarration =>
                  /\ Len(cues) = 2
                  /\ cues[1].start_time = 0 /\ cues[1].end_time = 900
                  /\ cues[2].start_time = 900 /\ cues[2].end_time = 2400

C21_Witness ==
    /\ chk.op = "script"
    /\ chk.content = ExampleNarration
    /\ Len(chk.subtitle_timings) = 2

\* process_work_item has been entered for item i in this run
Started(i) == pc \in {"process", "done"} /\ 1 <= i /\ i <= cur

\* the items before item i that reached "uploaded"
UploadedBefore(i) == {j \in 1..(i - 1) : work_items[j].status = "uploaded"}

\* C22: whatever the per-run cap c is, no item is started after c items of
\* the run have status "uploaded".
C22_StopsAtCap ==
    \A c \in 1..(Len(work_items) - 1) :
        \A i \in 1..Len(work_items) :
            Started(i) => Cardinality(UploadedBefore(i)) < c

\* C23: when ingestion yields zero work items, run_pipeline returns normally
\* and no stage collaborator is invoked in the run.
C23_EmptyIngestReturns ==
    (pc # "ingest" /\ work_items = <<>>) =>
        /\ pc = "done"
        /\ stage = "end"
        /\ {x \in calls : x[1] = run} = {}
        /\ hits = {}

C23_Witness ==
    /\ pc = "done"
    /\ work_items = <<>>
    /\ fetchFailed # {}

(***************************************************************************)
(* fetch_news with the retry decorator of _fetch_from_source               *)
(* (news_feed.py 27-47): the sources are fetched one after the other, each *)
(* through the wrapper of @retry(max_attempts=3, delay=2.0).  cur counts   *)
(* the sources whose try statement in fetch_news is over.                  *)
(***************************************************************************)
\* @retry(max_attempts=3, delay=2.0): the other arguments are the defaults
_fetch_from_source_policy ==
    [mode |-> "on", entry |-> "retry_async", max_attempts |-> 3, delay |-> 2,
     backoff_factor |-> 2, exceptions |-> ErrorKinds]

\* for source in self.news_sources: await self._fetch_from_source(source)
FetchCall ==
    /\ pc = "fetch"
    /\ cur = rt.callNo
    /\ rt.callNo < Len(Sources)
    /\ RetryCall

\* feedparser.parse(url) returns or raises inside the wrapper
FetchAttempt == pc = "fetch" /\ RetryAttempt

FetchWake == pc = "fetch" /\ RetryWake

\* A variant: fetch_news has no try statement around the call.
FetchEnd_propagate ==
    /\ pc = "fetch"
    /\ rt.pcr \in {"returned", "raised"}
    /\ cur = rt.callNo - 1
    /\ cur' = rt.callNo
    /\ pc' = IF rt.pcr = "raised" THEN "raised" ELSE pc
    /\ fetchFailed' = fetchFailed
    /\ UNCHANGED <<files, chk, saved, apiCalls, feed, run, work_items, stage,
                   statusLog, calls, done, hits, rt, sched>>

\* the call is over: all_news.extend(news_items), or except Exception logs
\* the failure and the loop goes on
FetchEnd ==
    /\ pc = "fetch"
    /\ rt.pcr \in {"returned", "raised"}
    /\ cur = rt.callNo - 1
    /\ cur' = rt.callNo
    /\ pc' = pc
    /\ fetchFailed' = IF rt.pcr = "raised"
                      THEN fetchFailed \cup {Sources[rt.callNo]}
                      ELSE fetchFailed
    /\ UNCHANGED <<files, chk, saved, apiCalls, feed, run, work_items, stage,
                   statusLog, calls, done, hits, rt, sched>>

\* after the loop: _deduplicate_news, sort, return; ingest_news builds the
\* work items
FetchDone ==
    /\ pc = "fetch"
    /\ cur = Len(Sources)
    /\ LET got == fetch_news(feed, fetchFailed, files)
           items == ingest_news(got.news)
       IN  /\ files' = got.files
           /\ work_items' = items
           /\ statusLog' = [i \in 1..Len(items) |-> <<"pending">>]
    /\ pc' = "fetched"
    /\ UNCHANGED <<chk, saved, apiCalls, feed, run, cur, stage, calls, done,
                   hits, fetchFailed, rt, sched>>

InitFetch ==
    /\ InitCommon
    /\ feed \in Feeds
    /\ pc = "fetch"
    /\ rt = RetryStart(_fetch_from_source_policy)
    /\ sched = SchedIdle

NextFetch == FetchCall \/ FetchAttempt \/ FetchWake \/ FetchEnd \/ FetchDone

SpecFetch == InitFetch /\ [][NextFetch]_vars

\* the content hashes of the work items
ItemHashes == {work_items[i].id[3] : i \in 1..Len(work_items)}

\* C24: a source is fetched at most 3 times in a run; a call that fails
\* does so after 3 attempts, the failure stays inside fetch_news, and the
\* items of the sources that did not fail are returned.
C24_FailingSourceCaught ==
    /\ pc \in {"fetch", "fetched"}
    /\ Len(rt.outcomes) <= 3
    /\ rt.pcr = "raised" =>
          /\ Len(rt.outcomes) = 3
          /\ \A k \in 1..3 : rt.outcomes[k] # "ok"
    /\ fetchFailed \subseteq {Sources[i] : i \in 1..cur}
    /\ pc = "fetched" =>
          /\ \A k \in 1..Len(feed) :
                feed[k].source \notin fetchFailed
                   => NewsContentHash(feed[k].entry) \in ItemHashes
          /\ \A i \in 1..Len(work_items) :
                work_items[i].source \notin fetchFailed

C24_Witness ==
    /\ pc = "fetched"
    /\ fetchFailed = {Sources[1]}
    /\ work_items # <<>>

\* the statuses item i has had, as a set
StatusesOf(i) == {statusLog[i][k] : k \in 1..Len(statusLog[i])}

\* C25: once the footage stage has been run for an item, the item has
\* reached "broll_downloaded" with a list of paths; when that list is empty
\* the render stage is the next one and is invoked for the item.
C25_EmptyFootageTolerated ==
    \A i \in 1..Len(work_items) :
        "footage" \in CalledFor(work_items[i].id) =>
            /\ "broll_downloaded" \in StatusesOf(i)
            /\ "broll_paths" \in DOMAIN work_items[i]
            /\ work_items[i].broll_paths = <<>> =>
                  \/ pc = "process" /\ cur = i /\ stage = "video"
                  \/ "render" \in CalledFor(work_items[i].id)

C25_Witness ==
    \E i \in 1..Len(work_items) :
        /\ "broll_paths" \in DOMAIN work_items[i]
        /\ work_items[i].broll_paths = <<>>
        /\ "render" \in CalledFor(work_items[i].id)
        /\ work_items[i].status = "uploaded"

\* the feed records _fetch_from_source returned, in the order fetched
Fetched == {k \in 1..Len(feed) : feed[k].source \notin fetchFailed}

\* the first fetched record with the content hash h
FirstFetched(h) ==
    CHOOSE k \in Fetched :
        /\ NewsContentHash(feed[k].entry) = h
        /\ \A m \in Fetched : NewsContentHash(feed[m].entry) = h => k <= m

\* C26: the items fetch_news returns have pairwise different content
\* hashes, and the item kept for a hash is the first one fetched with it.
C26_FirstOfEachHashKept ==
    pc = "fetched" =>
        /\ \A i, j \in 1..Len(work_items) :
              i # j => work_items[i].id[3] # work_items[j].id[3]
        /\ ItemHashes = {NewsContentHash(feed[k].entry) : k \in Fetched}
        /\ \A i \in 1..Len(work_items) :
              work_items[i].id = IdOf(feed[FirstFetched(work_items[i].id[3])])

C26_Witness ==
    /\ pc = "fetched"
    /\ Len(work_items) = 1
    /\ \E k, m \in Fetched :
          /\ k < m
          /\ feed[k].source # feed[m].source
          /\ NewsContentHash(feed[k].entry) = NewsContentHash(feed[m].entry)
          /\ work_items[1].source = feed[k].source

\* C27: once a work item's status is terminal, no later step of the run
\* changes the item (its status, its stage outputs, its error field) or its
\* status history.
C27_TerminalImmutable ==
    [][\A i \in 1..Len(work_items) :
          work_items[i].status \in Terminal =>
              /\ Len(work_items') = Len(work_items)
              /\ work_items'[i] = work_items[i]
              /\ statusLog'[i] = statusLog[i]]_vars

C27_Witness ==
    /\ Len(work_items) = 2
    /\ work_items[1].status = "failed"
    /\ "error" \in DOMAIN work_items[1]
    /\ work_items[2].status = "uploaded"
    /\ pc = "done"

(***************************************************************************)
(* The retry wrappers on one event loop (retry.py 36-92, 114-140): a       *)
(* retried operation and another ready task share the loop.  sched.func is *)
(* what asyncio.iscoroutinefunction(func) says of the retried function;    *)
(* sched.other counts the steps the other task has taken.                  *)
(***************************************************************************)
FuncKinds == {"coroutine", "plain"}

\* the wrapper the entry point runs func in: the decorator returns
\* async_wrapper for a coroutine function and sync_wrapper otherwise;
\* RetryManager.execute takes both kinds
WrapperAccepts(entry, func) ==
    \/ entry = "retry_async" /\ func = "coroutine"
    \/ entry = "retry_sync" /\ func = "plain"
    \/ entry = "execute"

\* the wait between attempts: await asyncio.sleep(current_delay) hands the
\* loop to the other tasks, time.sleep(current_delay) keeps the thread
SleepCall ==
    IF rt.entry = "retry_async" THEN "asyncio.sleep"
    ELSE IF rt.entry = "retry_sync" THEN "time.sleep"
    ELSE IF sched.func = "coroutine" THEN "asyncio.sleep"
    ELSE "time.sleep"

\* the loop's thread is inside time.sleep
HardBlocked == rt.pcr = "sleeping" /\ SleepCall = "time.sleep"

ConcCall == pc = "conc" /\ RetryCall

ConcAttempt == pc = "conc" /\ RetryAttempt

ConcWake == pc = "conc" /\ RetryWake

\* the event loop runs one step of the other ready task
OtherStep ==
    /\ pc = "conc"
    /\ ~HardBlocked
    /\ sched.other < MaxOtherSteps
    /\ sched' = [sched EXCEPT !.other = @ + 1]
    /\ UNCHANGED <<files, chk, saved, apiCalls, feed, run, pc, work_items, cur,
                   stage, statusLog, calls, done, hits, fetchFailed, rt>>

InitConc ==
    /\ InitCommon
    /\ feed = <<>>
    /\ pc = "conc"
    /\ \E policy \in RetryPolicies, func \in FuncKinds :
          /\ WrapperAccepts(policy.entry, func)
          /\ rt = RetryStart(policy)
          /\ sched = [func |-> func, other |-> 0]

NextConc == ConcCall \/ ConcAttempt \/ ConcWake \/ OtherStep

SpecConc == InitConc /\ [][NextConc]_vars

\* C28: while a retried operation waits out its backoff delay, another ready
\* task can take a step, for every entry point and both kinds of function.
C28_SleepIsSuspension ==
    (rt.pcr = "sleeping" /\ sched.other < MaxOtherSteps) => ENABLED OtherStep

\* the stage outputs that are None when the collaborator skips a duplicate
Nullable == {"script", "youtube_url"}

Accepted ==
    {work_items[i].id : i \in
        {k \in 1..Len(work_items) :
            \/ /\ work_items[k].status = "uploaded"
               /\ ~IsNone(work_items[k].youtube_url)
            \/ /\ work_items[k].status = "failed"
               /\ work_items[k].error = "thumbnail upload failed"}}

\* the items of this run the publish log holds a record of
Recorded ==
    {id \in {work_items[i].id : i \in 1..Len(work_items)} :
        \E k \in 1..Len(files[UploadHashFile]) :
            LET metadata == MetadataOf(files[UploadHashFile][k])
            IN  /\ "video_id" \in DOMAIN metadata
                /\ metadata.video_id = <<"video_id", run, id>>}

\* C30: once upload_video is over, the publish log holds a record for the
\* item exactly when the publisher accepted its video.
C30_RecordIffAccepted == Accepted = Recorded

=============================================================================
